---- MODULE Spec2Model ----
(***************************************************************************)
(* A model of the VM translator (src/src/main.rs): the translation of an   *)
(* ordered list of (module name, source text) pairs into Hack assembly or  *)
(* into a list of diagnostics.                                             *)
(*                                                                         *)
(* Text.  A Rust string is modelled as a sequence of atoms, an atom being  *)
(* an indivisible piece of text: a word ("push", "Foo"), one decimal digit *)
(* ("0".."9"), one separator (" ", "\n", "//", ".", "$"), or one fixed     *)
(* piece of a message or of an assembly template.  Concatenation is \o,    *)
(* equality of strings is equality of atom sequences.  Option<T> is a      *)
(* sequence of length 0 (None) or 1 (Some).  Result<T, E> is a record      *)
(* [tag, v] with tag "Ok" or "Err"; tag "Panic" is a Rust panic unwinding  *)
(* out of the function.                                                    *)
(***************************************************************************)
EXTENDS Integers, Sequences, FiniteSets, TLC

VARIABLES contents, pc, instructions, k, resolved, items, o, e, result

vars == <<contents, pc, instructions, k, resolved, items, o, e, result>>

(***************************************************************************)
(* Bounds of the input sets.                                               *)
(***************************************************************************)
MaxModules == 2
MaxTotal == 3
MaxFlowLines == 3
MaxOffset == 257

(***************************************************************************)
(* Program constants.                                                      *)
(***************************************************************************)
U8Max == 255
U8Modulus == 256
TempBase == 5
SavedWords == 5
\* usize::MAX is 2^64 - 1, beyond TLC's integers; every numeral of the model
\* has at most three digits, so the range check of parse::<usize> is kept at
\* the largest value TLC represents.
UsizeMax == 2147483647

(***************************************************************************)
(* Strings.                                                                *)
(***************************************************************************)
None == <<>>
Some(x) == <<x>>
IsSome(opt) == Len(opt) = 1
Unwrap(opt) == opt[1]
unwrap_or(opt, d) == IF IsSome(opt) THEN opt[1] ELSE d

Ok(v) == [tag |-> "Ok", v |-> v]
Err(v) == [tag |-> "Err", v |-> v]
Panic(v) == [tag |-> "Panic", v |-> v]

DigitChars == <<"0", "1", "2", "3", "4", "5", "6", "7", "8", "9">>
IsDigit(c) == \E d \in 1..10 : DigitChars[d] = c
DigitVal(c) == (CHOOSE d \in 1..10 : DigitChars[d] = c) - 1

\* usize::to_string / u8::to_string: the decimal digits, most significant first.
RECURSIVE to_string(_)
to_string(n) ==
    IF n < 10 THEN <<DigitChars[n + 1]>>
    ELSE to_string(n \div 10) \o <<DigitChars[(n % 10) + 1]>>

\* str::parse for an unsigned integer type of maximum max: an optional "+", then
\* at least one decimal digit, the value at most max.  -1 stands for Err.
RECURSIVE ParseDigits(_, _, _)
ParseDigits(s, acc, max) ==
    IF s = <<>> THEN acc
    ELSE IF ~IsDigit(Head(s)) THEN -1
    ELSE IF acc > (max - DigitVal(Head(s))) \div 10 THEN -1
    ELSE ParseDigits(Tail(s), acc * 10 + DigitVal(Head(s)), max)

parse_unsigned(s, max) ==
    LET body == IF s # <<>> /\ Head(s) = "+" THEN Tail(s) ELSE s
    IN  IF body = <<>> THEN -1 ELSE ParseDigits(body, 0, max)

parse_u8(s) == parse_unsigned(s, U8Max)
parse_usize(s) == parse_unsigned(s, UsizeMax)

IsWhitespace(c) == c \in {" ", "\n"}

RECURSIVE trim_start(_)
trim_start(s) ==
    IF s # <<>> /\ IsWhitespace(Head(s)) THEN trim_start(Tail(s)) ELSE s

RECURSIVE trim_end(_)
trim_end(s) ==
    IF s # <<>> /\ IsWhitespace(s[Len(s)])
    THEN trim_end(SubSeq(s, 1, Len(s) - 1))
    ELSE s

trim(s) == trim_end(trim_start(s))

\* str::split(sep): the pieces between the occurrences of the atom sep; always
\* at least one piece.
RECURSIVE split(_, _)
split(s, sep) ==
    IF \A i \in 1..Len(s) : s[i] # sep THEN <<s>>
    ELSE LET i == CHOOSE j \in 1..Len(s) :
                     s[j] = sep /\ \A h \in 1..(j - 1) : s[h] # sep
         IN  <<SubSeq(s, 1, i - 1)>> \o split(SubSeq(s, i + 1, Len(s)), sep)

\* str::lines(): the pieces between line feeds, without a final empty piece.
lines(s) ==
    LET ps == split(s, "\n")
    IN  IF ps[Len(ps)] = <<>> THEN SubSeq(ps, 1, Len(ps) - 1) ELSE ps

RECURSIVE Flatten(_)
Flatten(ss) == IF ss = <<>> THEN <<>> ELSE Head(ss) \o Flatten(Tail(ss))

\* str::repeat(n)
RECURSIVE repeat(_, _)
repeat(s, n) == IF n = 0 THEN <<>> ELSE s \o repeat(s, n - 1)

(***************************************************************************)
(* Instruction                                                             *)
(***************************************************************************)
\* Instruction::new; split always yields a first piece, so the Result is Ok.
Instruction_new(s, id, file) ==
    LET parts == split(s, " ")
    IN  [raw |-> s,
         operation |-> parts[1],
         arg1 |-> IF Len(parts) >= 2 THEN Some(parts[2]) ELSE None,
         arg2 |-> IF Len(parts) >= 3 THEN Some(parts[3]) ELSE None,
         file |-> file,
         id |-> id,
         frame |-> None]

\* Instruction::set_frame: the instruction with its frame field assigned.
set_frame(self, instrs) ==
    LET IsEarlierFunction(x) == x.operation = <<"function">> /\ x.id < self.id
        fs == SelectSeq(instrs, IsEarlierFunction)
        get_frame == IF self.operation = <<"operation">> THEN self.arg1
                     ELSE IF fs = <<>> THEN None
                     ELSE fs[Len(fs)].arg1
    IN  [self EXCEPT !.frame = get_frame]

\* parse_contents: the lines, cut at "//", trimmed, the empty ones dropped.
parse_contents(text) ==
    LET Clean(l) == trim(split(l, "//")[1])
        ls == lines(text)
        cleaned == [i \in 1..Len(ls) |-> Clean(ls[i])]
        NonEmpty(x) == x # <<>>
    IN  SelectSeq(cleaned, NonEmpty)

(***************************************************************************)
(* Assembly templates (src/translations/*.asm, included with include_str!).*)
(* Their text is fixed boilerplate; each is given with the placeholders in *)
(* the order the format! call fills them.                                  *)
(***************************************************************************)
init_asm ==
    <<"@256", "\n", "D=A", "\n", "@SP", "\n", "M=D", "\n",
      "@Sys.init", "\n", "0;JMP", "\n">>

push_constant_asm(v2) == <<"@">> \o v2 \o <<"\n", "D=A", "\n">>

push_segment_asm(segment, v2) ==
    <<"@">> \o v2 \o <<"\n", "D=A", "\n", "@">> \o segment
        \o <<"\n", "A=M+D", "\n", "D=M", "\n">>

pop_segment_full_asm(segment, v2) ==
    <<"@">> \o v2 \o <<"\n", "D=A", "\n", "@">> \o segment
        \o <<"\n", "D=M+D", "\n", "@R13", "\n", "M=D", "\n", "@SP", "\n",
             "AM=M-1", "\n", "D=M", "\n", "@R13", "\n", "A=M", "\n", "M=D", "\n">>

push_direct_asm(arg) == <<"@">> \o arg \o <<"\n", "D=M", "\n">>

pop_direct_full_asm(arg) ==
    <<"@SP", "\n", "AM=M-1", "\n", "D=M", "\n", "@">> \o arg \o <<"\n", "M=D", "\n">>

push_main_asm ==
    <<"@SP", "\n", "A=M", "\n", "M=D", "\n", "@SP", "\n", "M=M+1", "\n">>

op2_main_asm == <<"@SP", "\n", "AM=M-1", "\n", "D=M", "\n", "A=A-1", "\n">>

cmp_main_asm(a1, a2, a3, a4, a5, a6) ==
    <<"@SP", "\n", "AM=M-1", "\n", "D=M", "\n", "A=A-1", "\n", "D=M-D", "\n",
      "@", "TRUE">> \o a1 \o <<"\n", "D;">> \o a2 \o <<"\n",
      "@SP", "\n", "A=M-1", "\n", "M=0", "\n",
      "@", "END">> \o a3 \o <<"\n", "0;JMP", "\n",
      "(", "TRUE">> \o a4 \o <<")", "\n",
      "@SP", "\n", "A=M-1", "\n", "M=-1", "\n",
      "(", "END">> \o a5 \o <<")", "\n",
      "// cmp ">> \o a6 \o <<"\n">>

if_goto_asm(l_name) ==
    <<"@SP", "\n", "AM=M-1", "\n", "D=M", "\n", "@">> \o l_name \o <<"\n", "D;JNE", "\n">>

function_asm(arg1, n_vars, zeros) ==
    <<"(">> \o arg1 \o <<")", "\n", "// locals ">> \o n_vars
        \o <<"\n", "@SP", "\n", "A=M", "\n">> \o zeros

call_asm(return_label, n, arg1, return_label2) ==
    <<"@">> \o return_label \o <<"\n", "D=A", "\n">> \o push_main_asm
        \o <<"@">> \o n \o <<"\n", "D=A", "\n", "@SP", "\n", "D=M-D", "\n",
             "@ARG", "\n", "M=D", "\n", "@">> \o arg1 \o <<"\n", "0;JMP", "\n",
             "(">> \o return_label2 \o <<")", "\n">>

return_asm ==
    <<"@LCL", "\n", "D=M", "\n", "@R13", "\n", "M=D", "\n", "@R13", "\n",
      "A=M", "\n", "0;JMP", "\n">>

(***************************************************************************)
(* Code generators                                                         *)
(***************************************************************************)
\* segment_fmt: argument, local, this, that
segment_fmt(opt, instruction) ==
    IF ~IsSome(instruction.arg1) THEN Err(<<"Missing segment argument">>)
    ELSE LET a == Unwrap(instruction.arg1)
             known == a \in {<<"argument">>, <<"local">>, <<"this">>, <<"that">>}
             segment == CASE a = <<"argument">> -> <<"ARG">>
                          [] a = <<"local">> -> <<"LCL">>
                          [] a = <<"this">> -> <<"THIS">>
                          [] OTHER -> <<"THAT">>
         IN  IF ~known THEN Err(<<"Invalid segment argument '">> \o a \o <<"'">>)
             ELSE IF ~IsSome(instruction.arg2) THEN Err(<<"Missing 2nd argument">>)
             ELSE LET v2 == Unwrap(instruction.arg2)
                  IN  IF opt = "Push" THEN Ok(push_segment_asm(segment, v2))
                      ELSE Ok(pop_segment_full_asm(segment, v2))

\* static_fmt
static_fmt(opt, instruction) ==
    IF ~IsSome(instruction.arg2) THEN Err(<<"Missing 2nd argument">>)
    ELSE LET arg == instruction.file \o <<".">> \o Unwrap(instruction.arg2)
         IN  IF opt = "Push" THEN Ok(push_direct_asm(arg))
             ELSE Ok(pop_direct_full_asm(arg))

\* temp_fmt.  The sum of the parsed u8 and 5 is a u8 addition: beyond 255 it
\* panics in a build with overflow checks and wraps in a build without.
temp_fmt(opt, instruction, overflow_checks) ==
    IF ~IsSome(instruction.arg2)
    THEN Err(<<"Missing 2nd argument to temp segment">>)
    ELSE LET n == parse_u8(Unwrap(instruction.arg2))
         IN  IF n = -1
             THEN Err(<<"Invalid 2nd argument '">> \o Unwrap(instruction.arg2)
                          \o <<"' to temp segment">>)
             ELSE IF n + TempBase > U8Max /\ overflow_checks
             THEN Panic(<<"attempt to add with overflow">>)
             ELSE LET arg == <<"R">> \o to_string((n + TempBase) % U8Modulus)
                  IN  IF opt = "Push" THEN Ok(push_direct_asm(arg))
                      ELSE Ok(pop_direct_full_asm(arg))

\* pointer_fmt
pointer_fmt(opt, instruction) ==
    IF ~IsSome(instruction.arg2)
    THEN Err(<<"Missing 2nd argument to pointer segment">>)
    ELSE LET n == parse_u8(Unwrap(instruction.arg2))
         IN  IF n = -1
             THEN Err(<<"Invalid 2nd argument '">> \o Unwrap(instruction.arg2)
                          \o <<"' to pointer segment">>)
             ELSE IF n > 1
             THEN Err(<<"Invalid 2nd argument '">> \o to_string(n)
                          \o <<"' to pointer segment">>)
             ELSE LET arg == IF n = 0 THEN <<"THIS">> ELSE <<"THAT">>
                  IN  IF opt = "Push" THEN Ok(push_direct_asm(arg))
                      ELSE Ok(pop_direct_full_asm(arg))

\* generate_memop with the constant segment accepted by pop as by push.
generate_memop_pop_constant(instruction, overflow_checks) ==
    IF instruction.operation \notin {<<"push">>, <<"pop">>}
    THEN Err(<<"Invalid memmory operation instruction '">>
                 \o instruction.operation \o <<"'">>)
    ELSE IF ~(IsSome(instruction.arg1) /\ IsSome(instruction.arg2))
    THEN Err(<<"Memory operation instruction requires two parameters">>)
    ELSE LET opt == IF instruction.operation = <<"push">> THEN "Push" ELSE "Pop"
             v1 == Unwrap(instruction.arg1)
             v2 == Unwrap(instruction.arg2)
             code ==
                 CASE v1 = <<"constant">> -> Ok(push_constant_asm(v2))
                   [] v1 \in {<<"argument">>, <<"local">>, <<"this">>, <<"that">>} ->
                          segment_fmt(opt, instruction)
                   [] v1 = <<"static">> -> static_fmt(opt, instruction)
                   [] v1 = <<"temp">> -> temp_fmt(opt, instruction, overflow_checks)
                   [] v1 = <<"pointer">> -> pointer_fmt(opt, instruction)
                   [] OTHER -> Err(<<"Invalid segment argument '">> \o v1 \o <<"'">>)
         IN  IF code.tag # "Ok" THEN code
             ELSE IF opt = "Push" THEN Ok(code.v \o push_main_asm)
             ELSE Ok(code.v)

\* generate_memop: push, pop
generate_memop(instruction, overflow_checks) ==
    IF instruction.operation \notin {<<"push">>, <<"pop">>}
    THEN Err(<<"Invalid memmory operation instruction '">>
                 \o instruction.operation \o <<"'">>)
    ELSE IF ~(IsSome(instruction.arg1) /\ IsSome(instruction.arg2))
    THEN Err(<<"Memory operation instruction requires two parameters">>)
    ELSE LET opt == IF instruction.operation = <<"push">> THEN "Push" ELSE "Pop"
             v1 == Unwrap(instruction.arg1)
             v2 == Unwrap(instruction.arg2)
             code ==
                 CASE v1 = <<"constant">> /\ opt = "Push" -> Ok(push_constant_asm(v2))
                   [] v1 \in {<<"argument">>, <<"local">>, <<"this">>, <<"that">>} ->
                          segment_fmt(opt, instruction)
                   [] v1 = <<"static">> -> static_fmt(opt, instruction)
                   [] v1 = <<"temp">> -> temp_fmt(opt, instruction, overflow_checks)
                   [] v1 = <<"pointer">> -> pointer_fmt(opt, instruction)
                   [] OTHER -> Err(<<"Invalid segment argument '">> \o v1 \o <<"'">>)
         IN  IF code.tag # "Ok" THEN code
             ELSE IF opt = "Push" THEN Ok(code.v \o push_main_asm)
             ELSE Ok(code.v)

\* generate_2op: add, sub, or, and
generate_2op(instruction) ==
    LET g(x) == Ok(op2_main_asm \o <<x, "\n">>)
        op == instruction.operation
    IN  CASE op = <<"add">> -> g("M=M+D")
          [] op = <<"sub">> -> g("M=M-D")
          [] op = <<"or">> -> g("M=M|D")
          [] op = <<"and">> -> g("M=M&D")
          [] OTHER -> Err(<<"Invalid 2-operand arithemtic/logical instruction ">> \o op)

\* generate_1op: neg, not
generate_1op(instruction) ==
    LET g(x) == Ok(<<"@SP", "\n", "A=M-1", "\n", x, "\n">>)
        op == instruction.operation
    IN  CASE op = <<"neg">> -> g("M=-M")
          [] op = <<"not">> -> g("M=!M")
          [] OTHER -> Err(<<"Invalid 1-operand logical instruction '">> \o op \o <<"'">>)

\* generate_cmp: eq, gt, lt
generate_cmp(instruction) ==
    LET id == to_string(instruction.id)
        g(x) == Ok(cmp_main_asm(id, <<x>>, id, id, id, id))
        op == instruction.operation
    IN  CASE op = <<"eq">> -> g("JEQ")
          [] op = <<"gt">> -> g("JGT")
          [] op = <<"lt">> -> g("JLT")
          [] OTHER -> Err(<<"Invalid logical comparison instruction '">> \o op \o <<"'">>)

\* The qualified label name of generate_branching.
l_name(instruction) ==
    instruction.file \o <<".">> \o unwrap_or(instruction.frame, <<"global">>)
        \o <<"$">> \o Unwrap(instruction.arg1)

\* generate_branching: label, goto, if-goto
generate_branching(instruction) ==
    IF ~IsSome(instruction.arg1) THEN Err(<<"Missing label name argument">>)
    ELSE LET op == instruction.operation
             name == l_name(instruction)
         IN  CASE op = <<"label">> -> Ok(<<"(">> \o name \o <<")", "\n">>)
               [] op = <<"goto">> -> Ok(<<"@">> \o name \o <<"\n", "0;JMP", "\n">>)
               [] op = <<"if-goto">> -> Ok(if_goto_asm(name))
               [] OTHER -> Err(<<"Invalid branching instruction '">> \o op \o <<"'">>)

\* The return-address label of a call.
return_label(instruction) ==
    unwrap_or(instruction.frame, <<"global">>) \o <<"$ret.">> \o to_string(instruction.id)

\* generate_functions: function, call, return
generate_functions(instruction) ==
    LET op == instruction.operation
    IN  CASE op = <<"function">> ->
               IF ~IsSome(instruction.arg1) THEN Err(<<"Missing function name argument">>)
               ELSE IF ~IsSome(instruction.arg2)
               THEN Err(<<"Missing n_vars argument for function">>)
               ELSE LET arg2 == Unwrap(instruction.arg2)
                        n_vars == parse_usize(arg2)
                    IN  IF n_vars = -1
                        THEN Err(<<"Invalid n_vars argument for function, '">>
                                     \o arg2 \o <<"'">>)
                        ELSE Ok(function_asm(Unwrap(instruction.arg1), to_string(n_vars),
                                    repeat(<<"M=0", "\n", "A=A+1", "\n">>, n_vars)))
          [] op = <<"call">> ->
               IF ~IsSome(instruction.arg1)
               THEN Err(<<"Missing function name argument to call">>)
               ELSE IF ~IsSome(instruction.arg2)
               THEN Err(<<"Missing n_args argument for function call">>)
               ELSE LET arg2 == Unwrap(instruction.arg2)
                        n_args == parse_usize(arg2)
                    IN  IF n_args = -1
                        THEN Err(<<"Invalid n_args argument for function call, '">> \o arg2)
                        ELSE Ok(call_asm(return_label(instruction),
                                    to_string(n_args + SavedWords),
                                    Unwrap(instruction.arg1), return_label(instruction)))
          [] op = <<"return">> -> Ok(return_asm)
          [] OTHER -> Err(<<"Invalid functions instruction '">> \o op \o <<"'">>)

\* The diagnostic text of generate_code: "#<id> '<raw>': <message>".
err_fmt(instruction, x) ==
    <<"#">> \o to_string(instruction.id) \o <<" '">> \o instruction.raw
        \o <<"': ">> \o x

\* The closure g of generate_code applied to the category generator's result r.
echo_fragment(instruction, r) ==
    CASE r.tag = "Ok" ->
             Ok(<<"// ">> \o instruction.raw \o <<"\n">> \o trim_end(r.v))
      [] r.tag = "Err" -> Err(err_fmt(instruction, r.v))
      [] OTHER -> r

\* generate_code
generate_code(instruction, overflow_checks) ==
    LET op == instruction.operation
    IN  CASE op \in {<<"push">>, <<"pop">>} ->
               echo_fragment(instruction, generate_memop(instruction, overflow_checks))
          [] op \in {<<"add">>, <<"sub">>, <<"and">>, <<"or">>} ->
               echo_fragment(instruction, generate_2op(instruction))
          [] op \in {<<"neg">>, <<"not">>} ->
               echo_fragment(instruction, generate_1op(instruction))
          [] op \in {<<"eq">>, <<"gt">>, <<"lt">>} ->
               echo_fragment(instruction, generate_cmp(instruction))
          [] op \in {<<"label">>, <<"goto">>, <<"if-goto">>} ->
               echo_fragment(instruction, generate_branching(instruction))
          [] op \in {<<"function">>, <<"call">>, <<"return">>} ->
               echo_fragment(instruction, generate_functions(instruction))
          [] OTHER ->
               Err(err_fmt(instruction, <<"Invalid VM instruction '">> \o op \o <<"'">>))

(***************************************************************************)
(* Inputs: the (module name, source text) pairs handed to translate.       *)
(***************************************************************************)
L1(op) == <<op>>
L2(op, a1) == <<op, " ", a1>>
L3(op, a1, a2) == <<op, " ", a1, " ">> \o a2

\* The name of the i-th source file (its file stem).
ModuleName(i) == <<"M">> \o to_string(i)

\* The text of a source file holding the lines ls.
RECURSIVE SourceText(_)
SourceText(ls) == IF ls = <<>> THEN <<>> ELSE Head(ls) \o <<"\n">> \o SourceText(Tail(ls))

Module(i, ls) == [file |-> ModuleName(i), text |-> SourceText(ls)]

LineSeqs(V, n) == UNION {[1..m -> V] : m \in 0..n}

RECURSIVE Sum(_)
Sum(ns) == IF ns = <<>> THEN 0 ELSE Head(ns) + Sum(Tail(ns))

\* The list flat cut into consecutive pieces of the lengths lens.
Cut(flat, lens) ==
    [i \in 1..Len(lens) |->
        SubSeq(flat, Sum(SubSeq(lens, 1, i - 1)) + 1, Sum(SubSeq(lens, 1, i)))]

Program(lss) == [i \in 1..Len(lss) |-> Module(i, lss[i])]

\* Mixed programs: memory access, a comparison with a trailing comment, a
\* comment-only line.
Lines ==
    {L3("push", "constant", <<"3">>),
     L3("pop", "constant", <<"3">>),
     L3("push", "temp", <<"2", "5", "1">>),
     <<"eq", " ", "//", " ", "cmp">>,
     <<" ", "//", " ", "note">>}

\* Control-flow programs: functions, labels, jumps, calls.
FlowLines ==
    {L3("function", "Foo", <<"0">>),
     L3("function", "Bar", <<"1">>),
     L2("label", "L"),
     L2("goto", "L"),
     L3("call", "Foo", <<"0">>)}

\* Memory-access programs: one push or pop of every segment and offset text,
\* alone, after another instruction, or followed by a second module.
Segments ==
    {"constant", "argument", "local", "this", "that", "static", "temp", "pointer"}

Offsets ==
    {to_string(n) : n \in 0..MaxOffset} \cup {<<"x">>, <<"+", "5">>, <<"-", "1">>}

MemLines ==
    {L3(op, seg, off) : op \in {"push", "pop"}, seg \in Segments \cup {"heap"},
                        off \in Offsets}

\* The program built around the memory-access line l.
MemProgram(l, shape) ==
    CASE shape = 1 -> Program(<< <<l>> >>)
      [] shape = 2 -> Program(<< <<L1("add"), l>> >>)
      [] shape = 3 -> Program(<< <<l>>, <<L1("bogus")>> >>)
      [] OTHER -> Program(<< <<l>>, <<L3("push", "temp", <<"2", "5", "5">>)>> >>)

(***************************************************************************)
(* translate, as the steps of its iterator pipeline.                       *)
(***************************************************************************)
NoResult == [tag |-> "None", v |-> <<>>]

Start(cs) ==
    /\ contents = cs
    /\ pc = "parse"
    /\ instructions = <<>>
    /\ k = 1
    /\ resolved = <<>>
    /\ items = <<>>
    /\ o = <<>>
    /\ e = <<>>
    /\ result = NoResult

\* At most MaxModules source files holding at most MaxTotal lines in all.
Init ==
    \E m \in 0..MaxModules : \E t \in 0..MaxTotal :
        \E flat \in [1..t -> Lines] : \E lens \in [1..m -> 0..t] :
            /\ Sum(lens) = t
            /\ Start(Program(Cut(flat, lens)))

\* At most MaxModules source files of at most MaxFlowLines lines each.
InitFlow ==
    \E m \in 1..MaxModules :
        \E lss \in [1..m -> LineSeqs(FlowLines, MaxFlowLines)] :
            Start(Program(lss))

InitMem ==
    \E l \in MemLines : \E shape \in 1..4 : Start(MemProgram(l, shape))

\* The instructions of one source file, numbered from 0 within the file.
ModuleInstructions(m) ==
    LET ls == parse_contents(m.text)
    IN  [i \in 1..Len(ls) |-> Instruction_new(ls[i], i - 1, m.file)]

\* The flattened instruction list of translate.
ParseAll(cs) == Flatten([i \in 1..Len(cs) |-> ModuleInstructions(cs[i])])

Parse ==
    /\ pc = "parse"
    /\ instructions' = ParseAll(contents)
    /\ pc' = "fold"
    /\ UNCHANGED <<contents, k, resolved, items, o, e, result>>

\* One element through set_frame, generate_code and the fold's closure;
\* resolved and items are the streams the two map adapters yield.  A panic
\* unwinds out of translate: nothing is returned.  overflow_checks is the
\* build's setting for integer overflow (on in the debug profile, off in the
\* release profile); the source fixes neither.
FoldStep ==
    /\ pc = "fold"
    /\ k <= Len(instructions)
    /\ \E overflow_checks \in BOOLEAN :
          LET x == set_frame(instructions[k], instructions)
              item == generate_code(x, overflow_checks)
          IN  /\ resolved' = Append(resolved, x)
              /\ items' = Append(items, item)
              /\ o' = IF item.tag = "Ok" THEN Append(o, item.v) ELSE o
              /\ e' = IF item.tag = "Err" THEN Append(e, item.v) ELSE e
              /\ pc' = IF item.tag = "Panic" THEN "done" ELSE "fold"
              /\ result' = IF item.tag = "Panic" THEN item ELSE result
    /\ k' = k + 1
    /\ UNCHANGED <<contents, instructions>>

\* Output with the bootstrap fragment appended after the fragments.
Output_bootstrap_last(frags) ==
    Flatten([i \in 1..Len(frags) |-> frags[i] \o <<"\n", "\n">>]) \o init_asm

\* The text translate returns on success.
Output(frags) ==
    init_asm \o Flatten([i \in 1..Len(frags) |-> frags[i] \o <<"\n", "\n">>])

Finish ==
    /\ pc = "fold"
    /\ k > Len(instructions)
    /\ result' = IF Len(e) = 0 THEN Ok(Output(o)) ELSE Err(e)
    /\ pc' = "done"
    /\ UNCHANGED <<contents, instructions, k, resolved, items, o, e>>

Next == Parse \/ FoldStep \/ Finish

Spec == Init /\ [][Next]_vars
SpecFlow == InitFlow /\ [][Next]_vars
SpecMem == InitMem /\ [][Next]_vars

(***************************************************************************)
(* Vocabulary of the properties.                                           *)
(***************************************************************************)
HasPrefix(s, pre) == Len(s) >= Len(pre) /\ SubSeq(s, 1, Len(pre)) = pre

Contains(s, sub) ==
    \E i \in 0..(Len(s) - Len(sub)) : SubSeq(s, i + 1, i + Len(sub)) = sub

\* The names a piece of assembly defines as labels: its lines "(name)".
LabelDefs(text) ==
    LET ls == lines(text)
    IN  {SubSeq(ls[i], 2, Len(ls[i]) - 1) :
            i \in {j \in 1..Len(ls) : /\ Len(ls[j]) >= 2
                                      /\ ls[j][1] = "("
                                      /\ ls[j][Len(ls[j])] = ")"}}

\* The program as the source files give it: module order, then the order of
\* the non-empty cleaned lines within the module, numbered from 0.
ProgramOrder ==
    Flatten([i \in 1..Len(contents) |->
        LET ls == parse_contents(contents[i].text)
        IN  [j \in 1..Len(ls) |->
                [file |-> contents[i].file, id |-> j - 1, raw |-> ls[j]]]])

\* The blocks of non-empty lines of the output after the bootstrap fragment,
\* each block closed by one empty line.
OutputBlocks(text) ==
    LET ls == lines(SubSeq(text, Len(init_asm) + 1, Len(text)))
    IN  IF ls = <<>> THEN <<>> ELSE split(SubSeq(ls, 1, Len(ls) - 1), <<>>)

\* What code generation yields for every instruction of the program.
Generated ==
    [p \in 1..Len(instructions) |->
        generate_code(set_frame(instructions[p], instructions), FALSE)]

\* The diagnostics of the failing instructions, in program order.
FailingDiags ==
    LET IsErr(r) == r.tag = "Err"
        errs == SelectSeq(Generated, IsErr)
    IN  [i \in 1..Len(errs) |-> errs[i].v]

IsCmp(ins) == ins.operation \in {<<"eq">>, <<"gt">>, <<"lt">>}
IsMemop(ins) == ins.operation \in {<<"push">>, <<"pop">>}

AllOrNothing ==
    /\ (result.tag = "Err") <=> (FailingDiags # <<>>)
    /\ result.tag = "Err" => result.v = FailingDiags
    /\ FailingDiags = <<>> => result.tag = "Ok" /\ HasPrefix(result.v, init_asm)

\* C1: once translate is over, it has returned the error result exactly when
\* some instruction's code generation fails; the error result is the list of
\* the failing instructions' diagnostics in program order and carries no
\* assembly; with no failing instruction the assembly text is returned.
C1_AllOrNothing == pc = "done" => AllOrNothing

\* Whenever translate does return (it did not panic), the result is all or
\* nothing as C1 states.
ReturnedAllOrNothing == result.tag \in {"Ok", "Err"} => AllOrNothing

\* C2: a successful output is the bootstrap fragment followed by one block per
\* instruction, in program order (module order, then in-module order); each
\* block is the generated fragment of its instruction and opens with the
\* comment line echoing that instruction's raw line.
C2_OutputOrder ==
    result.tag = "Ok" =>
        LET bs == OutputBlocks(result.v)
        IN  /\ HasPrefix(result.v, init_asm)
            /\ Len(bs) = Len(ProgramOrder)
            /\ \A p \in 1..Len(bs) :
                  /\ bs[p][1] = <<"// ">> \o ProgramOrder[p].raw
                  /\ Len(bs[p]) >= 2
                  /\ bs[p] = lines(items[p].v)
                  /\ resolved[p].file = ProgramOrder[p].file
                  /\ resolved[p].id = ProgramOrder[p].id

\* A successful translation of two modules, the first of two instructions.
C2_Witness ==
    /\ result.tag = "Ok"
    /\ Len(contents) = 2
    /\ Len(instructions) = 3
    /\ instructions[2].file = instructions[1].file
    /\ instructions[3].file # instructions[1].file
    /\ instructions[1].raw # instructions[2].raw

\* C3: in a successful output no two comparison instructions define the same
\* label name.
C3_CmpLabelsDistinct ==
    result.tag = "Ok" =>
        \A p, q \in 1..Len(instructions) :
            (p # q /\ IsCmp(instructions[p]) /\ IsCmp(instructions[q])) =>
                LabelDefs(o[p]) \cap LabelDefs(o[q]) = {}

\* C7: every diagnostic carries its module, its in-module index and its raw
\* line, so the diagnostics of two failing instructions of different modules
\* differ even when index and raw line agree.
C7_DiagnosticsIdentifyModule ==
    \A p \in 1..Len(items) :
        items[p].tag = "Err" =>
            /\ Contains(items[p].v, resolved[p].file)
            /\ Contains(items[p].v, to_string(resolved[p].id))
            /\ Contains(items[p].v, resolved[p].raw)
            /\ \A q \in 1..Len(items) :
                  (items[q].tag = "Err" /\ resolved[q].file # resolved[p].file) =>
                      items[q].v # items[p].v

(***************************************************************************)
(* Scoping as the specification's frame resolver defines it.               *)
(***************************************************************************)
IsFunction(ins) == ins.operation = <<"function">>

\* The position of the function instruction that lexically encloses the
\* instruction at position p: p itself for a function instruction, else the
\* latest function instruction before p in p's own module; 0 when none.
EnclosingIndex(p) ==
    IF IsFunction(instructions[p]) THEN p
    ELSE LET prev == {q \in 1..(p - 1) : /\ instructions[q].file = instructions[p].file
                                         /\ IsFunction(instructions[q])}
         IN  IF prev = {} THEN 0 ELSE CHOOSE q \in prev : \A r \in prev : r <= q

\* The frame of the instruction at p: the enclosing function's name, or None
\* for the global scope.
ExpectedFrame(p) ==
    IF EnclosingIndex(p) = 0 THEN None ELSE instructions[EnclosingIndex(p)].arg1

IsLabel(ins) == ins.operation = <<"label">> /\ IsSome(ins.arg1)
IsJump(ins) == ins.operation \in {<<"goto">>, <<"if-goto">>} /\ IsSome(ins.arg1)
IsCall(ins) == ins.operation = <<"call">>

\* The symbols a fragment loads with an A-instruction "@name".
JumpTargets(text) ==
    LET ls == lines(text)
    IN  {SubSeq(ls[i], 2, Len(ls[i])) :
            i \in {j \in 1..Len(ls) : Len(ls[j]) >= 2 /\ ls[j][1] = "@"}}

\* C4: in a successful output, two labels of the same text inside two
\* different functions are defined under distinct qualified names, and a goto
\* or if-goto inside a function emits exactly the name defined by the label of
\* that text in the same function.
C4_LabelsScopedByFunction ==
    result.tag = "Ok" =>
        \A p, q \in 1..Len(instructions) :
            /\ ( /\ IsLabel(instructions[p]) /\ IsLabel(instructions[q])
                 /\ instructions[p].arg1 = instructions[q].arg1
                 /\ EnclosingIndex(p) # 0 /\ EnclosingIndex(q) # 0
                 /\ ExpectedFrame(p) # ExpectedFrame(q) )
               => LabelDefs(o[p]) \cap LabelDefs(o[q]) = {}
            /\ ( /\ IsLabel(instructions[p]) /\ IsJump(instructions[q])
                 /\ instructions[p].arg1 = instructions[q].arg1
                 /\ EnclosingIndex(p) # 0
                 /\ EnclosingIndex(p) = EnclosingIndex(q) )
               => JumpTargets(o[q]) = LabelDefs(o[p])

\* C5: in a successful output no two call instructions define the same
\* return-address label.
C5_ReturnLabelsUnique ==
    result.tag = "Ok" =>
        \A p, q \in 1..Len(instructions) :
            (p # q /\ IsCall(instructions[p]) /\ IsCall(instructions[q])) =>
                LabelDefs(o[p]) \cap LabelDefs(o[q]) = {}

\* C8: every resolved instruction's frame is its own name for a function
\* instruction, and otherwise the name of the latest function instruction
\* before it in its own module, or the global scope when there is none.
C8_FramesPerModule ==
    \A p \in 1..Len(resolved) : resolved[p].frame = ExpectedFrame(p)

(***************************************************************************)
(* Memory access.                                                          *)
(***************************************************************************)
IsPopConstant(ins) ==
    ins.operation = <<"pop">> /\ ins.arg1 = Some(<<"constant">>) /\ IsSome(ins.arg2)

IsPushConstant(ins) ==
    ins.operation = <<"push">> /\ ins.arg1 = Some(<<"constant">>) /\ IsSome(ins.arg2)

\* The number of failing items among the first p.
RECURSIVE ErrRank(_)
ErrRank(p) ==
    IF p = 0 THEN 0
    ELSE ErrRank(p - 1) + (IF items[p].tag = "Err" THEN 1 ELSE 0)

\* C6: every pop constant i that code generation has handled produced one
\* diagnostic "#<index> '<raw line>': Invalid segment argument 'constant'",
\* collected once at its place among the diagnostics; a program containing it
\* is never answered with assembly, and an error result returns the collected
\* diagnostics; push constant i is accepted.
C6_PopConstantRejected ==
    /\ \A p \in 1..Len(items) :
          /\ IsPopConstant(resolved[p]) =>
                /\ resolved[p].raw = ProgramOrder[p].raw
                /\ items[p] = Err(<<"#">> \o to_string(ProgramOrder[p].id) \o <<" '">>
                                    \o ProgramOrder[p].raw
                                    \o <<"': ", "Invalid segment argument '",
                                         "constant", "'">>)
                /\ Len(e) = ErrRank(Len(items))
                /\ e[ErrRank(p)] = items[p].v
          /\ IsPushConstant(resolved[p]) => items[p].tag = "Ok"
    /\ (\E p \in 1..Len(instructions) : IsPopConstant(instructions[p])) =>
          /\ result.tag # "Ok"
          /\ result.tag = "Err" => result.v = e

\* translate has returned the diagnostics of a program whose pop constant was
\* handled after another instruction.
C6_Witness ==
    /\ result.tag = "Err"
    /\ Len(result.v) = 1
    /\ Len(items) = 2
    /\ IsPopConstant(resolved[2])
    /\ resolved[2].arg2 = Some(<<"2", "5", "5">>)

\* C9: a push or pop on any segment whose offset does not parse as an unsigned
\* 8-bit integer fails with an invalid-argument diagnostic carrying the
\* offending text, and yields no fragment.
C9_OffsetsParsed ==
    \A p \in 1..Len(items) :
        ( /\ IsMemop(resolved[p])
          /\ IsSome(resolved[p].arg1) /\ IsSome(resolved[p].arg2)
          /\ \E seg \in Segments : resolved[p].arg1 = Some(<<seg>>)
          /\ parse_u8(Unwrap(resolved[p].arg2)) = -1 )
        => /\ items[p].tag = "Err"
           /\ Contains(items[p].v,
                       <<"Invalid 2nd argument '">> \o Unwrap(resolved[p].arg2))

\* C10: a push or pop on temp with offset i in 0..255 never overflows; when it
\* succeeds it addresses register i + 5, which lies in 5..12; with i > 7 it
\* fails with an invalid-argument diagnostic.
C10_TempWindow ==
    \A p \in 1..Len(items) :
        ( /\ IsMemop(resolved[p])
          /\ resolved[p].arg1 = Some(<<"temp">>) /\ IsSome(resolved[p].arg2)
          /\ parse_u8(Unwrap(resolved[p].arg2)) # -1 )
        => LET i == parse_u8(Unwrap(resolved[p].arg2))
           IN  /\ items[p].tag # "Panic"
               /\ items[p].tag = "Ok" =>
                     /\ i + TempBase \in 5..12
                     /\ Contains(items[p].v,
                                 <<"@", "R">> \o to_string(i + TempBase) \o <<"\n">>)
               /\ i > 7 =>
                     /\ items[p].tag = "Err"
                     /\ Contains(items[p].v,
                                 <<"Invalid 2nd argument '">> \o Unwrap(resolved[p].arg2))

====
